---- MODULE Spec2Model ----
(***************************************************************************)
(* Model of the datalab SDK batch and long-poll protocol:                  *)
(*   - Collection._process_all          (datalab_sdk/collections.py)       *)
(*   - process_files_async              (datalab_sdk/cli.py)               *)
(*   - AsyncDatalabClient.convert / ocr / _poll_result / _make_request     *)
(*                                      (datalab_sdk/client.py)            *)
(* One run of the model is one top-level call, chosen by `scenario`:       *)
(*   "collection"  Collection.convert_all / ocr_all over `sources`         *)
(*   "cli"         process_files_async over `sources`                      *)
(*   "convert"     one direct call of client.convert / client.ocr          *)
(*   "poll"        one direct call of client._poll_result                  *)
(* Each source (or the single call) is one item i; pc[i] is the position   *)
(* of its coroutine.  Every `await` is a point where other items may run.  *)
(* ResolveSpec is a second specification: one call of a Collection         *)
(* constructor, from_local_directory or from_s3_prefix (collections.py),    *)
(* or the cli's process_documents up to the start of its batch (cli.py).   *)
(* PathSpec computes the output path each batch item is given, EquivSpec   *)
(* runs AsyncDatalabClient and DatalabClient against one script of service *)
(* answers, and ClientSpec is the life of one AsyncDatalabClient's         *)
(* transport handle under concurrent requests (client.py).                 *)
(***************************************************************************)
EXTENDS Integers, Sequences, FiniteSets

\* ------------------------------------------------------------------ bounds
MaxSources == 3
MaxConcurrent == 2
MaxPolls == 3
MaxPollInterval == 1
MaxRemote == 2

\* ------------------------------------------------------- program constants
DefaultMaxPolls == 300
DefaultPollInterval == 1
ClientTimeout == 300

VARIABLES
    scenario,        \* which top-level call this run is
    method,          \* "convert" | "ocr"
    sources,         \* Collection.sources / files: sequence of source records
    max_concurrent,  \* the caller's max_concurrent
    max_polls,       \* the caller's max_polls
    poll_interval,   \* the caller's poll_interval
    call_kwargs,     \* keyword names the caller binds in the client call
    sem,             \* asyncio.Semaphore._value
    pc,              \* pc[i]: position of item i's coroutine
    exc,             \* exc[i]: the exception in flight or raised to the caller
    client,          \* client[i]: cli item's own AsyncDatalabClient handle
    poll_max,        \* poll_max[i]: max_polls bound inside _poll_result
    poll_T,          \* poll_T[i]: poll_interval bound inside _poll_result
    polls,           \* polls[i]: completed iterations of the polling loop
    nsub,            \* nsub[i]: submit (POST) requests sent for item i
    nreq,            \* nreq[i]: status (GET) requests sent for item i
    initial_data,    \* initial_data[i]: the body answering item i's submission
    data,            \* data[i]: the body of item i's latest status check
    seen,            \* seen[i]: summary of the status responses received
    result,          \* result[i]: ConversionResult / OCRResult returned
    results,         \* results[i]: the item dict handed to gather
    finished,        \* items in the order their coroutine finished
    summary,         \* CollectionResult / returned list, or NoSummary
    call,            \* the Collection constructor call and its arguments
    exts,            \* from_local_directory: `extensions` after normalising
    iter,            \* what the rglob iterator / the paginator still yields
    fetched,         \* listing pages requested from S3 so far
    files,           \* the `files` list being built
    rpc,             \* position of the constructor call
    rexc,            \* the exception the constructor call raised
    names,           \* PathSpec: the source strings of the batch
    output_dir,      \* PathSpec: the batch's output_dir, or Absent
    save_output,     \* PathSpec: save_output[i], the path item i is given
    script,          \* EquivSpec: the call and the service's answers
    arun,            \* EquivSpec: the run of AsyncDatalabClient
    srun,            \* EquivSpec: the run of DatalabClient
    _client,         \* ClientSpec: AsyncDatalabClient._client, 0 for None
    transports,      \* ClientSpec: transports[h]: state of the h-th handle
    ctx,             \* ClientSpec: position of the `async with client` block
    req              \* ClientSpec: req[t]: task t's _make_request calls

vars == <<scenario, method, sources, max_concurrent, max_polls, poll_interval,
          call_kwargs, sem, pc, exc, client, poll_max, poll_T, polls, nsub,
          nreq, initial_data, data, seen, result, results, finished, summary,
          call, exts, iter, fetched, files, rpc, rexc, names, output_dir,
          save_output, script, arun, srun, _client, transports, ctx, req>>

inputs == <<scenario, method, sources, max_concurrent, max_polls,
            poll_interval, call_kwargs>>

resolverVars == <<call, exts, iter, fetched, files, rpc, rexc>>

outputVars == <<names, output_dir, save_output>>
equivVars == <<script, arun, srun>>
clientVars == <<_client, transports, ctx, req>>

\* The variables of PathSpec, EquivSpec and ClientSpec; a batch run or a
\* constructor call leaves them alone.
sideVars == <<outputVars, equivVars, clientVars>>

\* ------------------------------------------------------------- data model
Absent == "<absent>"

\* A formatted message: format string, string argument, numeric argument.
Msg(fmt, arg, n) == [fmt |-> fmt, arg |-> arg, n |-> n]
NoneMsg == Msg("None", "", 0)

\* An exception object: class, str(e), status_code (0 stands for None).
Exc(type, msg, code) == [type |-> type, msg |-> msg, status_code |-> code]
NoExc == Exc("None", NoneMsg, 0)

\* Sources: what the code looks at is the scheme prefix and, for a local
\* path, whether the file exists.
LocalOk      == [scheme |-> "",         exists |-> TRUE]
LocalMissing == [scheme |-> "",         exists |-> FALSE]
HttpUrl      == [scheme |-> "http://",  exists |-> FALSE]
HttpsUrl     == [scheme |-> "https://", exists |-> FALSE]
S3Uri        == [scheme |-> "s3://",    exists |-> FALSE]
SourceSet == {LocalOk, LocalMissing, HttpsUrl}
RemoteSet == {HttpUrl, HttpsUrl, S3Uri}

\* Variant of IsRemote that does not know the s3:// scheme.
IsRemoteHttpOnly(source) == source.scheme \in {"http://", "https://"}

\* source.startswith(('http://', 'https://', 's3://'))
IsRemote(source) == source.scheme \in {"http://", "https://", "s3://"}

\* JSON bodies.  A missing key is Absent; success is "true"/"false"/Absent.
Json(status, success, error, url) ==
    [status |-> status, success |-> success, error |-> error,
     request_check_url |-> url]
NoData == Json(Absent, Absent, Absent, Absent)

\* dict.get(key, default)
Get(d, key, default) ==
    CASE key = "status"  -> IF d.status = Absent THEN default ELSE d.status
      [] key = "success" -> IF d.success = Absent THEN default ELSE d.success
      [] key = "error"   -> IF d.error = Absent THEN default ELSE d.error
      [] OTHER           -> IF d.request_check_url = Absent THEN default
                            ELSE d.request_check_url

\* Python truthiness of a stored success value (None / missing is falsy).
Truthy(v) == v = "true"

\* What the remote service may answer to a status check.
StatusResponses ==
    { Json("processing", "true",  Absent, Absent),
      Json("processing", "false", "boom", Absent),
      Json("complete",   "true",  Absent, Absent),
      Json("complete",   "false", "boom", Absent),
      Json("complete",   Absent,  Absent, Absent),
      Json("failed",     "false", "boom", Absent),
      Json("failed",     "false", Absent, Absent),
      Json("failed",     "true",  "boom", Absent),
      Json("failed",     Absent,  "boom", Absent),
      Json(Absent,       "false", "boom", Absent),
      Json(Absent,       "true",  Absent, Absent) }

\* What the remote service may answer to a submission.
SubmitResponses ==
    { Json(Absent, "true",  Absent, "check-url"),
      Json(Absent, "false", "bad",  Absent),
      Json(Absent, "false", Absent, Absent),
      Json(Absent, Absent,  Absent, Absent) }

\* Ways the transport call itself fails instead of returning a body.
TransportFailures == {"TimeoutException", "HTTPStatusError", "RequestError"}


\* -------------------------------------------------------------- call binding
\* Keyword parameters of AsyncDatalabClient.convert and .ocr.
ConvertParams == {"file_path", "options", "save_output"}
OcrParams == {"file_path", "options", "save_output"}

\* Keywords bound by the callers.
CollectionConvertKwargs ==
    {"file_path", "file_url", "options", "save_output", "max_polls",
     "poll_interval"}
CollectionOcrKwargs ==
    {"file_path", "options", "save_output", "max_polls", "poll_interval"}
CliKwargs ==
    {"file_path", "options", "save_output", "max_polls", "poll_interval"}
PlainKwargs == {"file_path", "options", "save_output"}
PollingKwargs == {"file_path", "max_polls", "poll_interval"}

Params(m) == IF m = "convert" THEN ConvertParams ELSE OcrParams

\* The keywords the running scenario passes to client.convert / client.ocr.
Kwargs ==
    CASE scenario = "collection" ->
             IF method = "convert" THEN CollectionConvertKwargs
             ELSE CollectionOcrKwargs
      [] scenario = "cli" -> CliKwargs
      [] OTHER -> call_kwargs

\* Python binds the call's keywords to the parameters before the body runs;
\* a keyword that is no parameter raises TypeError.
Binds(kwargs, params) == kwargs \subseteq params

\* --------------------------------------------------------------- exceptions
TypeErrorKeyword(m) ==
    Exc("TypeError", Msg("{}() got an unexpected keyword argument", m, 0), 0)
TypeErrorNonePath ==
    Exc("TypeError", Msg("expected str, bytes or os.PathLike object", "", 0), 0)
OcrUrlError ==
    Exc("ValueError",
        Msg("OCR method only supports local files, not URLs", "", 0), 0)
FileNotFound ==
    Exc("DatalabFileError", Msg("File not found: {}", "file_path", 0), 0)
\* Variant of SubmitRejected that drops the service's message.
SubmitRejectedUnknown(d) ==
    Exc("DatalabAPIError", Msg("Request failed: {}", "Unknown error", 0), 0)
\* convert / ocr: the error raised for a submission the service refused.
SubmitRejected(d) ==
    Exc("DatalabAPIError",
        Msg("Request failed: {}", Get(d, "error", "Unknown error"), 0), 0)
ProcessingFailed(d) ==
    Exc("DatalabAPIError",
        Msg("Processing failed: {}", Get(d, "error", "Unknown error"), 0), 0)
PollingTimedOut(m, t) ==
    Exc("DatalabTimeoutError",
        Msg("Polling timed out after {} seconds", "", m * t), 0)

\* _make_request: the exception raised for each transport failure.
MakeRequestError(f) ==
    CASE f = "TimeoutException" ->
             Exc("DatalabTimeoutError",
                 Msg("Request timed out after {} seconds", "", ClientTimeout), 0)
      [] f = "HTTPStatusError" ->
             Exc("DatalabAPIError", Msg("{}", "http-error", 0), 400)
      [] OTHER ->
             Exc("DatalabAPIError", Msg("Request failed: {}", "request-error", 0), 0)

\* Variant of PrepareError without the existence check.
PrepareErrorNoCheck(source) ==
    IF IsRemote(source) THEN TypeErrorNonePath ELSE NoExc

\* _prepare_file_data: what it raises for a source, NoExc when it returns.
\* The collection passes file_path = None for a remote source.
PrepareError(source) ==
    IF IsRemote(source) THEN TypeErrorNonePath
    ELSE IF ~source.exists THEN FileNotFound
    ELSE NoExc

\* ------------------------------------------------------------------- poller
\* Variant of PollDecision that tests the failure flag before "complete".
PollDecisionFailureFirst(d) ==
    IF ~Truthy(Get(d, "success", "true"))
       /\ ~(Get(d, "status", Absent) = "processing") THEN "raise"
    ELSE IF Get(d, "status", Absent) = "complete" THEN "return"
    ELSE "sleep"

\* Variant of PollDecision that never looks at the failure flag.
PollDecisionNoFailure(d) ==
    IF Get(d, "status", Absent) = "complete" THEN "return" ELSE "sleep"

\* Variant of PollDecision that hands a failed job's body back as a result.
PollDecisionReturnsFailed(d) ==
    IF Get(d, "status", Absent) \in {"complete", "failed"} THEN "return"
    ELSE IF ~Truthy(Get(d, "success", "true"))
            /\ ~(Get(d, "status", Absent) = "processing") THEN "raise"
    ELSE "sleep"

\* Variant of PollDecision that fails on status "failed" whatever the flag.
PollDecisionStatusFailed(d) ==
    IF Get(d, "status", Absent) = "complete" THEN "return"
    ELSE IF Get(d, "status", Absent) = "failed"
            \/ (~Truthy(Get(d, "success", "true"))
                /\ ~(Get(d, "status", Absent) = "processing")) THEN "raise"
    ELSE "sleep"

\* Variant of PollDecision without the exemption of "processing".
PollDecisionFlagOnly(d) ==
    IF Get(d, "status", Absent) = "complete" THEN "return"
    ELSE IF ~Truthy(Get(d, "success", "true")) THEN "raise"
    ELSE "sleep"

\* One iteration of _poll_result after the body `d` arrived.
PollDecision(d) ==
    IF Get(d, "status", Absent) = "complete" THEN "return"
    ELSE IF ~Truthy(Get(d, "success", "true"))
            /\ ~(Get(d, "status", Absent) = "processing") THEN "raise"
    ELSE "sleep"

\* Variant of LoopContinues that runs one iteration too many.
LoopContinuesOffByOne(done, m) == done <= m

\* `for i in range(max_polls)`: another iteration while i < max_polls.
LoopContinues(done, m) == done < m

\* Summary of the status responses an item has received so far.
\*   n                number of responses received
\*   allProcessing    every response so far had status "processing"
\*   first            the first response
\*   procThenComplete k when responses 1..k-1 were "processing" and the
\*                    k-th was "complete", else 0
\*   completeResp     that k-th response
NoSeen == [n |-> 0, allProcessing |-> TRUE, first |-> NoData,
           procThenComplete |-> 0, completeResp |-> NoData]
Observe(s, r) ==
    [n |-> s.n + 1,
     allProcessing |-> s.allProcessing /\ r.status = "processing",
     first |-> IF s.n = 0 THEN r ELSE s.first,
     procThenComplete |-> IF s.allProcessing /\ r.status = "complete"
                          THEN s.n + 1 ELSE s.procThenComplete,
     completeResp |-> IF s.allProcessing /\ r.status = "complete"
                      THEN r ELSE s.completeResp]

\* ------------------------------------------------------------------ results
\* ConversionResult / OCRResult built from the poller's payload.
NoResult == [success |-> Absent, error |-> NoneMsg, status |-> Absent]
RawMsg(v) == IF v = Absent THEN NoneMsg ELSE Msg("{}", v, 0)
MakeResult(d) ==
    [success |-> Get(d, "success", "false"),
     error   |-> RawMsg(Get(d, "error", Absent)),
     status  |-> Get(d, "status", "complete")]

\* The dict an item returns to gather.
NoSource == [scheme |-> Absent, exists |-> FALSE]
NoItem == [source |-> NoSource, success |-> Absent, error |-> NoneMsg,
           status |-> Absent]
ItemDict(source, r) ==
    [source |-> source, success |-> r.success, error |-> r.error,
     status |-> IF scenario = "cli" THEN Absent ELSE r.status]
\* Variant of ErrorDict that loses the exception's message.
ErrorDictNoMessage(source, e) ==
    [source |-> source, success |-> "false", error |-> NoneMsg,
     status |-> IF scenario = "cli" THEN Absent ELSE "failed"]
ErrorDict(source, e) ==
    [source |-> source, success |-> "false", error |-> e.msg,
     status |-> IF scenario = "cli" THEN Absent ELSE "failed"]

\* ---------------------------------------------------------------- semaphore
\* Variants of the semaphore: no gate, a gate that keeps one slot back, and
\* a release that does not give the slot back.
CanAcquireAlways(v) == TRUE
CanAcquireOffByOne(v) == v > 1
AfterReleaseLeak(v) == v
\* Variant of the gate that also opens at value zero.
CanAcquireAtZero(v) == v >= 0

\* asyncio.Semaphore: acquire proceeds while the value is positive.
CanAcquire(v) == v > 0
AfterAcquire(v) == v - 1
AfterRelease(v) == v + 1

\* --------------------------------------------------------------- aggregator
RECURSIVE Filter(_, _)
Filter(rs, keep) ==
    IF rs = <<>> THEN <<>>
    ELSE IF Truthy(Head(rs).success) = keep
         THEN <<Head(rs)>> \o Filter(Tail(rs), keep)
         ELSE Filter(Tail(rs), keep)

\* Variant of GatherResults that loses the last task's return value.
GatherDropsLast(rs, n) == [i \in 1..(n - 1) |-> rs[i]]

\* Variant of GatherResults that yields the values as the tasks finished.
GatherInCompletionOrder(rs, n) == [k \in 1..n |-> rs[finished[k]]]

\* asyncio.gather: the items' return values in the order of the tasks.
GatherResults(rs, n) == [i \in 1..n |-> rs[i]]

ErrorEntry(r) == [source |-> r.source, error |-> r.error]
NoSummary == [returned |-> FALSE, total_files |-> 0, successful |-> 0,
              failed |-> 0, results |-> <<>>, errors |-> <<>>]
\* Variant of Summarize that counts one file too many.
SummarizeOffByOne(srcs, rs) ==
    LET ok  == Filter(rs, TRUE)
        bad == Filter(rs, FALSE)
    IN [returned |-> TRUE, total_files |-> Len(srcs) + 1,
        successful |-> Len(ok), failed |-> Len(bad), results |-> rs,
        errors |-> [k \in 1..Len(bad) |-> ErrorEntry(bad[k])]]
\* Variant of Summarize that lists the failures as the tasks finished.
SummarizeErrorsByCompletion(srcs, rs) ==
    LET ok  == Filter(rs, TRUE)
        bad == Filter([k \in 1..Len(finished) |-> rs[finished[k]]], FALSE)
    IN [returned |-> TRUE, total_files |-> Len(srcs), successful |-> Len(ok),
        failed |-> Len(bad), results |-> rs,
        errors |-> [k \in 1..Len(bad) |-> ErrorEntry(bad[k])]]
\* CollectionResult of _process_all.
Summarize(srcs, rs) ==
    LET ok  == Filter(rs, TRUE)
        bad == Filter(rs, FALSE)
    IN [returned |-> TRUE, total_files |-> Len(srcs), successful |-> Len(ok),
        failed |-> Len(bad), results |-> rs,
        errors |-> [k \in 1..Len(bad) |-> ErrorEntry(bad[k])]]
\* process_files_async returns the list; show_results counts it.
ShowResults(rs) ==
    LET ok  == Filter(rs, TRUE)
        bad == Filter(rs, FALSE)
    IN [returned |-> TRUE, total_files |-> Len(rs), successful |-> Len(ok),
        failed |-> Len(rs) - Len(ok), results |-> rs,
        errors |-> [k \in 1..Len(bad) |-> ErrorEntry(bad[k])]]


\* ------------------------------------------------------------ initial state
Items == 1..Len(sources)
IsBatch == scenario \in {"collection", "cli"}

SeqUpTo(S, n) == UNION {[1..k -> S] : k \in 0..n}

\* The arguments _poll_result runs with: convert and ocr call
\* self._poll_result(check_url) and so take the defaults of its signature.
PollArgs ==
    IF scenario = "poll" THEN <<max_polls, poll_interval>>
    ELSE <<DefaultMaxPolls, DefaultPollInterval>>

\* The cli's files come from get_files_to_process, which lists existing
\* files; a collection's sources are arbitrary strings: mixed batches of
\* local paths and URLs, and batches of remote references of every scheme.
InitInputs ==
    \/ /\ scenario = "collection"
       /\ method \in {"convert", "ocr"}
       /\ sources \in SeqUpTo(SourceSet, MaxSources)
                      \cup SeqUpTo(RemoteSet, MaxRemote)
       /\ max_concurrent \in 0..MaxConcurrent
       /\ max_polls = MaxPolls
       /\ poll_interval = DefaultPollInterval
       /\ call_kwargs = {}
    \/ /\ scenario = "cli"
       /\ method \in {"convert", "ocr"}
       /\ sources \in SeqUpTo({LocalOk}, MaxSources)
       /\ max_concurrent \in 0..MaxConcurrent
       /\ max_polls = MaxPolls
       /\ poll_interval = DefaultPollInterval
       /\ call_kwargs = {}
    \/ /\ scenario = "convert"
       /\ method \in {"convert", "ocr"}
       /\ sources \in {<<LocalOk>>, <<LocalMissing>>}
       /\ max_concurrent = 0
       /\ max_polls = MaxPolls
       /\ poll_interval = DefaultPollInterval
       /\ call_kwargs \in {PlainKwargs, PollingKwargs}
    \/ /\ scenario = "poll"
       /\ method = "convert"
       /\ sources = <<LocalOk>>
       /\ max_concurrent = 0
       /\ max_polls \in 0..MaxPolls
       /\ poll_interval \in 0..MaxPollInterval
       /\ call_kwargs = {}

\* The state of a run before its first step.
ItemsInit ==
    /\ sem = max_concurrent
    /\ pc = [i \in Items |->
               CASE scenario = "convert" -> "call"
                 [] scenario = "poll" -> "poll_call"
                 [] OTHER -> "pending"]
    /\ exc = [i \in Items |-> NoExc]
    /\ client = [i \in Items |-> "none"]
    /\ poll_max = [i \in Items |-> 0]
    /\ poll_T = [i \in Items |-> 0]
    /\ polls = [i \in Items |-> 0]
    /\ nsub = [i \in Items |-> 0]
    /\ nreq = [i \in Items |-> 0]
    /\ initial_data = [i \in Items |-> NoData]
    /\ data = [i \in Items |-> NoData]
    /\ seen = [i \in Items |-> NoSeen]
    /\ result = [i \in Items |-> NoResult]
    /\ results = [i \in Items |-> NoItem]
    /\ finished = <<>>
    /\ summary = NoSummary

\* ---------------------------------------------------------- source resolver
\* Collection.from_local_directory and Collection.from_s3_prefix.  A run of
\* ResolveSpec is one call of one of the two constructors.  Strings are
\* drawn from a small alphabet; str.lower and the leading-dot rule are
\* tabulated over it.  Extension lists are used for membership only and are
\* modelled as sets.  boto3 is taken to be importable.
MaxEntries == 3
MaxPages == 2
MaxKeys == 1

\* datalab_sdk.mimetypes.SUPPORTED_EXTENSIONS
SupportedExtensions == {".pdf", ".docx", ".jpg", ".xlsx"}

\* str.lower() over the suffixes of the alphabet.
Lower(x) == IF x = ".PDF" THEN ".pdf" ELSE x

\* ext if ext.startswith('.') else f'.{ext}'
WithDot(x) ==
    CASE x = "pdf"  -> ".pdf"
      [] x = "PDF"  -> ".PDF"
      [] x = "docx" -> ".docx"
      [] x = "txt"  -> ".txt"
      [] OTHER      -> x

\* [ext if ext.startswith('.') else f'.{ext}' for ext in extensions]
NormalizeExtensions(e) == {WithDot(x) : x \in e}

\* The `extensions` argument: None, or a list.
NoExtensions == [given |-> FALSE, list |-> {}]
Extensions(e) == [given |-> TRUE, list |-> e]
ExtensionArgs ==
    {NoExtensions} \cup
    {Extensions(e) : e \in { {}, {".pdf"}, {"pdf"}, {".PDF"},
                             {".pdf", ".docx"}, {"docx", ".jpg"}, {".txt"} }}

\* One path under the directory: its suffix, whether it is a regular file,
\* and how many directories below the top it lies.
Entry(suffix, is_file, depth) ==
    [suffix |-> suffix, is_file |-> is_file, depth |-> depth]
EntrySet ==
    { Entry(".pdf", TRUE, 0), Entry(".pdf", TRUE, 1), Entry(".PDF", TRUE, 1),
      Entry(".docx", TRUE, 0), Entry(".jpg", TRUE, 1), Entry(".pdf", FALSE, 0),
      Entry("", TRUE, 0) }

\* The `directory` argument.
Directory(exists, is_dir, entries) ==
    [exists |-> exists, is_dir |-> is_dir, entries |-> entries]
NoDirectory == Directory(FALSE, FALSE, <<>>)
PlainFile == Directory(TRUE, FALSE, <<>>)

\* Variant of Rglob that does not descend into subdirectories.
GlobTopLevel(d) == SelectSeq(d.entries, LAMBDA e : e.depth = 0)

\* directory.rglob("*"): every path below the directory, at any depth.
Rglob(d) == d.entries

\* file_path.is_file() and file_path.suffix.lower() in extensions
KeepFile(e, es) == e.is_file /\ Lower(e.suffix) \in es

\* The `s3_uri` argument after urlparse.
Uri(scheme, netloc, path) ==
    [scheme |-> scheme, netloc |-> netloc, path |-> path]
NoUri == Uri("", "", "")
UriSet == { Uri("s3", "bucket", "/docs/"), Uri("http", "invalid-uri", ""),
            Uri("", "", "bucket/docs/") }

\* One page of list_objects_v2: 'Contents' may be missing.
Page(has_contents, keys) == [has_contents |-> has_contents, keys |-> keys]
KeySet == {".pdf", ".PDF", ".txt"}
PageSet ==
    {Page(FALSE, <<>>)} \cup
    {Page(TRUE, ks) : ks \in UNION {[1..k -> KeySet] : k \in 1..MaxKeys}}

\* f"s3://{bucket}/{key}"
S3Source(bucket, key) == [scheme |-> "s3://", bucket |-> bucket, key |-> key]

\* `if extensions:` ... `if file_ext not in extensions_normalized: continue`
KeepKey(key, e) ==
    (e.given /\ e.list # {}) => Lower(key) \in NormalizeExtensions(e.list)

\* The inner loop over page['Contents'].
RECURSIVE KeysToFiles(_, _, _)
KeysToFiles(keys, bucket, e) ==
    IF keys = <<>> THEN <<>>
    ELSE IF KeepKey(Head(keys), e)
         THEN <<S3Source(bucket, Head(keys))>>
              \o KeysToFiles(Tail(keys), bucket, e)
         ELSE KeysToFiles(Tail(keys), bucket, e)

\* Variant of PageFiles that reads 'Contents' of the first page only.
PageFilesFirstPage(page, bucket, e) ==
    IF ~page.has_contents \/ fetched > 0 THEN <<>>
    ELSE KeysToFiles(page.keys, bucket, e)

\* `if 'Contents' in page:` and the loop over it.
PageFiles(page, bucket, e) ==
    IF ~page.has_contents THEN <<>>
    ELSE KeysToFiles(page.keys, bucket, e)

DirectoryNotFound ==
    Exc("ValueError", Msg("Directory not found: {}", "directory", 0), 0)
InvalidS3Uri ==
    Exc("ValueError",
        Msg("Invalid S3 URI: {}. Must start with 's3://'", "s3_uri", 0), 0)
S3AccessFailed ==
    Exc("ValueError", Msg("Failed to access S3: {}", "client-error", 0), 0)

\* The constructor call of a run.
NoCall ==
    [op |-> "none", directory |-> NoDirectory, extensions |-> NoExtensions,
     s3_uri |-> NoUri, pages |-> <<>>]
LocalDirectoryCall(d, e) ==
    [op |-> "from_local_directory", directory |-> d, extensions |-> e,
     s3_uri |-> NoUri, pages |-> <<>>]
S3PrefixCall(u, ps, e) ==
    [op |-> "from_s3_prefix", directory |-> NoDirectory, extensions |-> e,
     s3_uri |-> u, pages |-> ps]
\* The `directory` arguments with at most n paths below them.
Directories(n) ==
    {NoDirectory, PlainFile}
    \cup {Directory(TRUE, TRUE, es) : es \in SeqUpTo(EntrySet, n)}

\* cli: the `path` argument when it is a regular file; its one entry is the
\* file itself.
FilePath(suffix) == Directory(TRUE, FALSE, <<Entry(suffix, TRUE, 0)>>)

\* cli.parse_extensions: None for no or an empty option, else the entries with
\* a leading dot (str.strip is the identity over the alphabet).
ParseExtensions(e) ==
    IF ~e.given \/ e.list = {} THEN NoExtensions
    ELSE Extensions(NormalizeExtensions(e.list))

\* sys.exit(1) after click.echo(..., err=True): SystemExit carrying the exit
\* status, with the echoed message.
SkippingUnsupported ==
    Exc("SystemExit", Msg("Skipping {}: unsupported file type", "path", 0), 1)
NoSupportedFiles ==
    Exc("SystemExit", Msg("No supported files found in {}", "path", 0), 1)

\* Variant of WorkSetError that lets an empty work set through.
WorkSetErrorNever(to_process) == NoExc

\* `if not to_process: ... sys.exit(1)`
WorkSetError(to_process) ==
    IF to_process = <<>> THEN NoSupportedFiles ELSE NoExc

\* cli.process_documents with an api key: the path and the --extensions
\* option.
CliCall(d, e) ==
    [op |-> "process_documents", directory |-> d, extensions |-> e,
     s3_uri |-> NoUri, pages |-> <<>>]
\* The `path` arguments: missing, a file, or a directory of at most n paths.
CliPaths(n) ==
    {NoDirectory}
    \cup {FilePath(x) : x \in {".pdf", ".PDF", ".txt"}}
    \cup {Directory(TRUE, TRUE, es) : es \in SeqUpTo(EntrySet, n)}

\* No output path, no client pair and no shared client is part of a batch
\* run or of a constructor call.
OutputIdle ==
    /\ names = <<>>
    /\ output_dir = Absent
    /\ save_output = <<>>
EquivIdle ==
    /\ script = <<>>
    /\ arun = <<>>
    /\ srun = <<>>
ClientIdle ==
    /\ _client = 0
    /\ transports = <<>>
    /\ ctx = "none"
    /\ req = <<>>

\* No constructor call is part of a batch run.
ResolverIdle ==
    /\ call = NoCall
    /\ exts = {}
    /\ iter = <<>>
    /\ fetched = 0
    /\ files = <<>>
    /\ rpc = "idle"
    /\ rexc = NoExc

\* A run of one constructor call: no batch is running.
ResolveInit ==
    /\ scenario = "resolve"
    /\ method = "convert"
    /\ sources = <<>>
    /\ max_concurrent = 0
    /\ max_polls = 0
    /\ poll_interval = 0
    /\ call_kwargs = {}
    /\ ItemsInit
    /\ OutputIdle /\ EquivIdle /\ ClientIdle
    /\ \/ \E d \in Directories(MaxEntries), e \in ExtensionArgs :
             call = LocalDirectoryCall(d, e)
       \/ \E u \in UriSet, ps \in SeqUpTo(PageSet, MaxPages),
             e \in ExtensionArgs :
             call = S3PrefixCall(u, ps, e)
       \/ \E d \in CliPaths(MaxEntries), e \in ExtensionArgs :
             call = CliCall(d, e)
    /\ exts = {}
    /\ iter = <<>>
    /\ fetched = 0
    /\ files = <<>>
    /\ rpc = "call"
    /\ rexc = NoExc

itemVars == <<inputs, sem, pc, exc, client, poll_max, poll_T, polls, nsub,
              nreq, initial_data, data, seen, result, results, finished,
              summary>>

\* from_local_directory up to the loop: the directory test and the
\* normalising of the extension list.
FromLocalDirectory ==
    /\ call.op = "from_local_directory"
    /\ rpc = "call"
    /\ IF ~call.directory.exists \/ ~call.directory.is_dir
       THEN /\ rexc' = DirectoryNotFound
            /\ rpc' = "raised"
            /\ UNCHANGED <<exts, iter, files>>
       ELSE /\ exts' = NormalizeExtensions(
                          IF call.extensions.given THEN call.extensions.list
                          ELSE SupportedExtensions)
            /\ iter' = Rglob(call.directory)
            /\ files' = <<>>
            /\ rpc' = "rglob"
            /\ UNCHANGED rexc
    /\ UNCHANGED <<itemVars, sideVars, call, fetched>>

\* One iteration of `for file_path in directory.rglob("*")`.
ScanEntry ==
    /\ rpc = "rglob"
    /\ iter # <<>>
    /\ files' = IF KeepFile(Head(iter), exts) THEN Append(files, Head(iter))
                ELSE files
    /\ iter' = Tail(iter)
    /\ UNCHANGED <<itemVars, sideVars, call, exts, fetched, rpc, rexc>>

\* from_s3_prefix up to the loop: the URI's scheme is tested first.
FromS3Prefix ==
    /\ call.op = "from_s3_prefix"
    /\ rpc = "call"
    /\ IF call.s3_uri.scheme # "s3"
       THEN /\ rexc' = InvalidS3Uri
            /\ rpc' = "raised"
            /\ UNCHANGED <<iter, files>>
       ELSE /\ iter' = call.pages
            /\ files' = <<>>
            /\ rpc' = "paginate"
            /\ UNCHANGED rexc
    /\ UNCHANGED <<itemVars, sideVars, call, exts, fetched>>

\* One iteration of `for page in pages`: the page is fetched and its keys
\* are filtered.
ListPage ==
    /\ rpc = "paginate"
    /\ iter # <<>>
    /\ fetched' = fetched + 1
    /\ files' = files \o PageFiles(Head(iter), call.s3_uri.netloc,
                                   call.extensions)
    /\ iter' = Tail(iter)
    /\ UNCHANGED <<itemVars, sideVars, call, exts, rpc, rexc>>

\* Fetching a page raises ClientError / NoCredentialsError.
ListPageFails ==
    /\ rpc = "paginate"
    /\ iter # <<>>
    /\ fetched' = fetched + 1
    /\ rexc' = S3AccessFailed
    /\ rpc' = "raised"
    /\ UNCHANGED <<itemVars, sideVars, call, exts, iter, files>>

\* return cls(name=name, sources=files)
ReturnCollection ==
    /\ rpc \in {"rglob", "paginate"}
    /\ iter = <<>>
    /\ rpc' = "returned"
    /\ UNCHANGED <<itemVars, sideVars, call, exts, iter, fetched, files, rexc>>

\* cli.process_documents up to the loop of find_files_in_directory:
\* parse_extensions, then get_files_to_process, which takes a regular file
\* as the whole work set unless its suffix is outside the given extensions.
GetFilesToProcess ==
    /\ call.op = "process_documents"
    /\ rpc = "call"
    /\ LET path == call.directory
           file_extensions == ParseExtensions(call.extensions)
       IN IF path.exists /\ ~path.is_dir
          THEN IF /\ file_extensions.given
                  /\ Lower(path.entries[1].suffix) \notin file_extensions.list
               THEN /\ rexc' = SkippingUnsupported
                    /\ rpc' = "exited"
                    /\ UNCHANGED <<exts, iter, files>>
               ELSE /\ files' = path.entries
                    /\ rpc' = "check"
                    /\ UNCHANGED <<exts, iter, rexc>>
          ELSE /\ exts' = IF file_extensions.given THEN file_extensions.list
                          ELSE SupportedExtensions
               /\ iter' = Rglob(path)
               /\ files' = <<>>
               /\ rpc' = "find"
               /\ UNCHANGED rexc
    /\ UNCHANGED <<itemVars, sideVars, call, fetched>>

\* One iteration of `for file_path in directory.rglob("*")` in
\* find_files_in_directory.
FindFile ==
    /\ rpc = "find"
    /\ iter # <<>>
    /\ files' = IF KeepFile(Head(iter), exts) THEN Append(files, Head(iter))
                ELSE files
    /\ iter' = Tail(iter)
    /\ UNCHANGED <<itemVars, sideVars, call, exts, fetched, rpc, rexc>>

\* process_documents after get_files_to_process returned: an empty work set
\* ends the process with status 1, any other goes on to the batch.
CheckWorkSet ==
    /\ rpc = "check" \/ (rpc = "find" /\ iter = <<>>)
    /\ IF WorkSetError(files) # NoExc
       THEN /\ rexc' = WorkSetError(files)
            /\ rpc' = "exited"
       ELSE /\ rpc' = "batch"
            /\ UNCHANGED rexc
    /\ UNCHANGED <<itemVars, sideVars, call, exts, iter, fetched, files>>

ResolveNext ==
    \/ FromLocalDirectory
    \/ ScanEntry
    \/ FromS3Prefix
    \/ ListPage
    \/ ListPageFails
    \/ ReturnCollection
    \/ GetFilesToProcess
    \/ FindFile
    \/ CheckWorkSet

ResolveSpec == ResolveInit /\ [][ResolveNext]_vars

Init ==
    /\ InitInputs
    /\ ItemsInit
    /\ ResolverIdle
    /\ OutputIdle /\ EquivIdle /\ ClientIdle

\* ------------------------------------------------------------------ actions
batchVars == <<sem, results, finished, summary>>
pollVars == <<poll_max, poll_T, polls, nreq, seen>>

Goto(i, where) == pc' = [pc EXCEPT ![i] = where]
Raise(i, e) == /\ exc' = [exc EXCEPT ![i] = e]
               /\ Goto(i, "raised")

\* `async with semaphore` entry: the item takes one slot.
Acquire(i) ==
    /\ IsBatch
    /\ pc[i] = "pending"
    /\ CanAcquire(sem)
    /\ sem' = AfterAcquire(sem)
    /\ Goto(i, IF scenario = "cli" THEN "enter" ELSE "try")
    /\ UNCHANGED <<inputs, resolverVars, sideVars, exc, client, pollVars, nsub,
                   initial_data, data, result, results, finished, summary>>

\* cli: `async with AsyncDatalabClient(...) as client` entry (_ensure_client).
ClientEnter(i) ==
    /\ scenario = "cli"
    /\ pc[i] = "enter"
    /\ client' = [client EXCEPT ![i] = "open"]
    /\ Goto(i, "try")
    /\ UNCHANGED <<inputs, resolverVars, sideVars, exc, pollVars, nsub, initial_data,
                   data, result, batchVars>>

\* The call of client.convert / client.ocr: the collection refuses OCR of a
\* URL first, then Python binds the keywords.  Both batch callers pass
\* max_polls and poll_interval (the collection also file_url), which the
\* signatures of client.py do not have, so their calls end here.
CallClient(i) ==
    /\ pc[i] \in {"try", "call"}
    /\ IF scenario = "collection" /\ method = "ocr" /\ IsRemote(sources[i])
       THEN Raise(i, OcrUrlError)
       ELSE IF ~Binds(Kwargs, Params(method))
       THEN Raise(i, TypeErrorKeyword(method))
       ELSE /\ Goto(i, "prepare")
            /\ UNCHANGED exc
    /\ UNCHANGED <<inputs, resolverVars, sideVars, client, pollVars, nsub, initial_data,
                   data, result, batchVars>>

\* get_form_params -> _prepare_file_data: the file must exist.
PrepareFile(i) ==
    /\ pc[i] = "prepare"
    /\ IF PrepareError(sources[i]) # NoExc
       THEN Raise(i, PrepareError(sources[i]))
       ELSE /\ Goto(i, "submit")
            /\ UNCHANGED exc
    /\ UNCHANGED <<inputs, resolverVars, sideVars, client, pollVars, nsub, initial_data,
                   data, result, batchVars>>

\* _make_request("POST", ...): the submission leaves.
SendSubmit(i) ==
    /\ pc[i] = "submit"
    /\ nsub' = [nsub EXCEPT ![i] = @ + 1]
    /\ Goto(i, "submit_wait")
    /\ UNCHANGED <<inputs, resolverVars, sideVars, exc, client, pollVars, initial_data,
                   data, result, batchVars>>

\* The submission's answer: rejected unless success is truthy.
RecvSubmit(i) ==
    /\ pc[i] = "submit_wait"
    /\ \E r \in SubmitResponses :
         /\ initial_data' = [initial_data EXCEPT ![i] = r]
         /\ IF ~Truthy(Get(r, "success", Absent))
            THEN Raise(i, SubmitRejected(r))
            ELSE /\ Goto(i, "poll_call")
                 /\ UNCHANGED exc
    /\ UNCHANGED <<inputs, resolverVars, sideVars, client, pollVars, nsub, data, result,
                   batchVars>>

\* Variant of FailRequest that silently sends a failed status request again.
FailRequestRetries(i) ==
    /\ pc[i] \in {"submit_wait", "status_wait"}
    /\ IF pc[i] = "status_wait"
       THEN /\ Goto(i, "status_send")
            /\ UNCHANGED exc
       ELSE \E f \in TransportFailures : Raise(i, MakeRequestError(f))
    /\ UNCHANGED <<inputs, resolverVars, sideVars, client, pollVars, nsub,
                   initial_data, data, result, batchVars>>

\* _make_request: the transport call raises instead of returning a body.
FailRequest(i) ==
    /\ pc[i] \in {"submit_wait", "status_wait"}
    /\ \E f \in TransportFailures : Raise(i, MakeRequestError(f))
    /\ UNCHANGED <<inputs, resolverVars, sideVars, client, pollVars, nsub, initial_data,
                   data, result, batchVars>>

\* Entry of _poll_result: its parameters are bound.
CallPollResult(i) ==
    /\ pc[i] = "poll_call"
    /\ poll_max' = [poll_max EXCEPT ![i] = PollArgs[1]]
    /\ poll_T' = [poll_T EXCEPT ![i] = PollArgs[2]]
    /\ Goto(i, "loop")
    /\ UNCHANGED <<inputs, resolverVars, sideVars, exc, client, polls, nreq, seen, nsub,
                   initial_data, data, result, batchVars>>

\* Head of `for i in range(max_polls)`; falling out of the loop times out.
LoopHead(i) ==
    /\ pc[i] = "loop"
    /\ IF LoopContinues(polls[i], poll_max[i])
       THEN /\ Goto(i, "status_send")
            /\ UNCHANGED exc
       ELSE Raise(i, PollingTimedOut(poll_max[i], poll_T[i]))
    /\ UNCHANGED <<inputs, resolverVars, sideVars, client, pollVars, nsub, initial_data,
                   data, result, batchVars>>

\* _make_request("GET", check_url): one status request leaves.
SendStatus(i) ==
    /\ pc[i] = "status_send"
    /\ nreq' = [nreq EXCEPT ![i] = @ + 1]
    /\ Goto(i, "status_wait")
    /\ UNCHANGED <<inputs, resolverVars, sideVars, exc, client, poll_max, poll_T, polls,
                   seen, nsub, initial_data, data, result, batchVars>>

\* The status answer arrives and the loop body decides.
RecvStatus(i) ==
    /\ pc[i] = "status_wait"
    /\ \E r \in StatusResponses :
         /\ data' = [data EXCEPT ![i] = r]
         /\ seen' = [seen EXCEPT ![i] = Observe(@, r)]
         /\ CASE PollDecision(r) = "return" ->
                   /\ Goto(i, "polled")
                   /\ UNCHANGED exc
              [] PollDecision(r) = "raise" ->
                   Raise(i, ProcessingFailed(r))
              [] OTHER ->
                   /\ Goto(i, "sleep")
                   /\ UNCHANGED exc
    /\ UNCHANGED <<inputs, resolverVars, sideVars, client, poll_max, poll_T, polls,
                   nreq, nsub, initial_data, result, batchVars>>

\* await asyncio.sleep(poll_interval) returns: the iteration is over.
Sleep(i) ==
    /\ pc[i] = "sleep"
    /\ polls' = [polls EXCEPT ![i] = @ + 1]
    /\ Goto(i, "loop")
    /\ UNCHANGED <<inputs, resolverVars, sideVars, exc, client, poll_max, poll_T, nreq,
                   seen, nsub, initial_data, data, result, batchVars>>

\* convert / ocr build the result object from the payload and return it.
BuildResult(i) ==
    /\ scenario # "poll"
    /\ pc[i] = "polled"
    /\ result' = [result EXCEPT ![i] = MakeResult(data[i])]
    /\ Goto(i, "built")
    /\ UNCHANGED <<inputs, resolverVars, sideVars, exc, client, pollVars, nsub,
                   initial_data, data, batchVars>>

\* cli: leaving `async with AsyncDatalabClient(...)`, normally or by an
\* exception, closes the item's client.
ClientExit(i) ==
    /\ scenario = "cli"
    /\ pc[i] \in {"built", "raised"}
    /\ client[i] = "open"
    /\ client' = [client EXCEPT ![i] = "closed"]
    /\ UNCHANGED <<inputs, resolverVars, sideVars, pc, exc, pollVars, nsub,
                   initial_data, data, result, batchVars>>

\* Variant of ReturnItem that returns without leaving the client's context.
ReturnItemKeepsClient(i) ==
    /\ IsBatch
    /\ pc[i] \in {"built", "raised"}
    /\ results' = [results EXCEPT ![i] =
                     IF pc[i] = "built" THEN ItemDict(sources[i], result[i])
                     ELSE ErrorDict(sources[i], exc[i])]
    /\ Goto(i, "release")
    /\ UNCHANGED <<inputs, resolverVars, sideVars, exc, client, pollVars, nsub,
                   initial_data, data, result, sem, finished, summary>>

\* The item's two return statements: the result dict, or, from
\* `except Exception`, the failed dict carrying str(e).
ReturnItem(i) ==
    /\ IsBatch
    /\ pc[i] \in {"built", "raised"}
    /\ scenario = "cli" => client[i] # "open"
    /\ results' = [results EXCEPT ![i] =
                     IF pc[i] = "built" THEN ItemDict(sources[i], result[i])
                     ELSE ErrorDict(sources[i], exc[i])]
    /\ Goto(i, "release")
    /\ UNCHANGED <<inputs, resolverVars, sideVars, exc, client, pollVars, nsub,
                   initial_data, data, result, sem, finished, summary>>

\* A release that is skipped when the item's call raised.
ReleaseLeaksOnError(i) ==
    /\ pc[i] = "release"
    /\ sem' = IF exc[i] = NoExc THEN AfterRelease(sem) ELSE sem
    /\ finished' = Append(finished, i)
    /\ Goto(i, "done")
    /\ UNCHANGED <<inputs, resolverVars, sideVars, exc, client, pollVars, nsub,
                   initial_data, data, result, results, summary>>

\* `async with semaphore` exit: the slot goes back and the task is done.
Release(i) ==
    /\ pc[i] = "release"
    /\ sem' = AfterRelease(sem)
    /\ finished' = Append(finished, i)
    /\ Goto(i, "done")
    /\ UNCHANGED <<inputs, resolverVars, sideVars, exc, client, pollVars, nsub,
                   initial_data, data, result, results, summary>>

\* asyncio.gather returned: aggregate and return the summary.
Gather ==
    /\ IsBatch
    /\ ~summary.returned
    /\ \A i \in Items : pc[i] = "done"
    /\ summary' = IF scenario = "collection"
                  THEN Summarize(sources, GatherResults(results, Len(sources)))
                  ELSE ShowResults(GatherResults(results, Len(sources)))
    /\ UNCHANGED <<inputs, resolverVars, sideVars, sem, pc, exc, client, pollVars, nsub,
                   initial_data, data, result, results, finished>>

Step(i) ==
    \/ Acquire(i)
    \/ ClientEnter(i)
    \/ CallClient(i)
    \/ PrepareFile(i)
    \/ SendSubmit(i)
    \/ RecvSubmit(i)
    \/ FailRequest(i)
    \/ CallPollResult(i)
    \/ LoopHead(i)
    \/ SendStatus(i)
    \/ RecvStatus(i)
    \/ Sleep(i)
    \/ BuildResult(i)
    \/ ClientExit(i)
    \/ ReturnItem(i)
    \/ Release(i)

Next ==
    \/ \E i \in Items : Acquire(i)
    \/ \E i \in Items : ClientEnter(i)
    \/ \E i \in Items : CallClient(i)
    \/ \E i \in Items : PrepareFile(i)
    \/ \E i \in Items : SendSubmit(i)
    \/ \E i \in Items : RecvSubmit(i)
    \/ \E i \in Items : FailRequest(i)
    \/ \E i \in Items : CallPollResult(i)
    \/ \E i \in Items : LoopHead(i)
    \/ \E i \in Items : SendStatus(i)
    \/ \E i \in Items : RecvStatus(i)
    \/ \E i \in Items : Sleep(i)
    \/ \E i \in Items : BuildResult(i)
    \/ \E i \in Items : ClientExit(i)
    \/ \E i \in Items : ReturnItem(i)
    \/ \E i \in Items : Release(i)
    \/ Gather

Spec == Init /\ [][Next]_vars

\* The event loop keeps running while some task is ready, and the remote
\* service answers every request: some enabled step is eventually taken.
FairSpec == Spec /\ WF_vars(Next)


\* ------------------------------------------------------------ output paths
\* The path each item of a batch is given for its output, computed at the
\* head of process_single_source (collections.py) and process_single_file
\* (cli.py).  A run of PathSpec is one batch over `names`; the items compute
\* their paths in any order.  A source string is kept as its scheme prefix,
\* the part before the last "/" and the last path segment; Path.stem is
\* tabulated over the segments of the alphabet.
MaxNames == 2

SourceName(scheme, parent, name) ==
    [scheme |-> scheme, parent |-> parent, name |-> name]
NameSet ==
    { SourceName("", "a", "x.pdf"), SourceName("", "b", "x.pdf"),
      SourceName("", "a", "x.png"), SourceName("", "a", "y.pdf"),
      SourceName("https://", "h1", "x.pdf"),
      SourceName("https://", "h2", "x.pdf"),
      SourceName("https://", "h1", ""),
      SourceName("s3://", "bucket", "y.pdf") }
\* find_files_in_directory yields local paths only.
LocalNames == {n \in NameSet : n.scheme = ""}

\* Path(...).stem: the last segment without its suffix.
Stem(name) ==
    CASE name \in {"x.pdf", "x.png"} -> "x"
      [] name = "y.pdf" -> "y"
      [] OTHER -> ""

\* source_name of process_single_source.
SourceStem(n) ==
    IF n.scheme \in {"http://", "https://", "s3://"}
    THEN IF Stem(n.name) = "" THEN "output" ELSE Stem(n.name)
    ELSE Stem(n.name)

\* A path is the sequence of its components; None is the empty one.
NoPath == <<>>
Unbound == <<"unbound">>

\* save_output = output_dir / self.name / source_name / source_name
CollectionSavePath(dir, n) ==
    IF dir = Absent THEN NoPath
    ELSE <<dir, "self.name", SourceStem(n), SourceStem(n)>>

\* output_path = output_dir / Path(relative_path).stem / Path(relative_path).stem
CliSavePath(dir, n) == <<dir, Stem(n.name), Stem(n.name)>>

PathInit ==
    /\ scenario \in {"collection", "cli"}
    /\ method = "convert"
    /\ sources = <<>>
    /\ max_concurrent = 0
    /\ max_polls = 0
    /\ poll_interval = 0
    /\ call_kwargs = {}
    /\ ItemsInit
    /\ ResolverIdle /\ EquivIdle /\ ClientIdle
    /\ names \in IF scenario = "collection" THEN SeqUpTo(NameSet, MaxNames)
                 ELSE SeqUpTo(LocalNames, MaxNames)
    /\ output_dir \in IF scenario = "collection" THEN {Absent, "out"}
                      ELSE {"out"}
    /\ save_output = [i \in 1..Len(names) |-> Unbound]

\* process_single_source up to `save_output = ...`.
SourceOutputPath(i) ==
    /\ scenario = "collection"
    /\ save_output[i] = Unbound
    /\ save_output' = [save_output EXCEPT
                          ![i] = CollectionSavePath(output_dir, names[i])]
    /\ UNCHANGED <<itemVars, resolverVars, equivVars, clientVars, names,
                   output_dir>>

\* process_single_file up to `output_path = ...`.
FileOutputPath(i) ==
    /\ scenario = "cli"
    /\ save_output[i] = Unbound
    /\ save_output' = [save_output EXCEPT
                          ![i] = CliSavePath(output_dir, names[i])]
    /\ UNCHANGED <<itemVars, resolverVars, equivVars, clientVars, names,
                   output_dir>>

PathNext ==
    \/ \E i \in 1..Len(names) : SourceOutputPath(i)
    \/ \E i \in 1..Len(names) : FileOutputPath(i)

PathSpec == PathInit /\ [][PathNext]_vars

\* ------------------------------------------------- blocking client and async
\* DatalabClient re-implements _make_request, _poll_result and convert with
\* blocking calls.  A run of EquivSpec takes one call, `script`, with the
\* answers the service gives to its requests, runs AsyncDatalabClient on it
\* and then DatalabClient; a client whose request finds the script used up
\* waits for an answer that does not come.
MaxAnswers == 2

\* The answer to one request: a JSON body, or a failure of the transport call.
Body(d) == [fail |-> "none", body |-> d]
Fails(f) == [fail |-> f, body |-> NoData]
StatusAnswers ==
    {Body(d) : d \in StatusResponses} \cup {Fails(f) : f \in TransportFailures}
SubmitAnswers ==
    {Body(d) : d \in SubmitResponses} \cup {Fails(f) : f \in TransportFailures}

Script(op, file, submit, answers, m, t) ==
    [op |-> op, file |-> file, submit |-> submit, answers |-> answers,
     max_polls |-> m, poll_interval |-> t]
\* The calls: _poll_result with its two arguments, convert of a missing
\* file, and convert of an existing one, which polls with the defaults.
PollScript(as, m, t) == Script("poll", LocalOk, Body(NoData), as, m, t)
ConvertMissingScript ==
    Script("convert", LocalMissing, Body(NoData), <<>>, DefaultMaxPolls,
           DefaultPollInterval)
ConvertScript(sub, as) ==
    Script("convert", LocalOk, sub, as, DefaultMaxPolls, DefaultPollInterval)

\* One client's run: position, loop counter, the requests it has sent, and
\* what it returned or raised.
Run(at, done, reqs, d, r, e) ==
    [pc |-> at, polls |-> done, reqs |-> reqs, data |-> d, result |-> r,
     exc |-> e]
NewRun == Run("start", 0, <<>>, NoData, NoResult, NoExc)
Ended(run) == run.pc \in {"returned", "raised", "waiting"}
RunRaises(run, e) == [run EXCEPT !.pc = "raised", !.exc = e]
Sends(run, verb) == [run EXCEPT !.reqs = Append(@, verb)]
Gets(run) == Len(SelectSeq(run.reqs, LAMBDA v : v = "GET"))

\* DatalabClient._make_request: the exception raised for each transport
\* failure.
SyncMakeRequestError(f) ==
    CASE f = "TimeoutException" ->
             Exc("DatalabTimeoutError",
                 Msg("Request timed out after {} seconds", "", ClientTimeout), 0)
      [] f = "HTTPStatusError" ->
             Exc("DatalabAPIError", Msg("{}", "http-error", 0), 400)
      [] OTHER ->
             Exc("DatalabAPIError", Msg("Request failed: {}", "request-error", 0), 0)

\* DatalabClient.convert: the error raised for a refused submission.
SyncSubmitRejected(d) ==
    Exc("DatalabAPIError",
        Msg("Request failed: {}", Get(d, "error", "Unknown error"), 0), 0)

\* DatalabClient._poll_result: its two exceptions.
SyncProcessingFailed(d) ==
    Exc("DatalabAPIError",
        Msg("Processing failed: {}", Get(d, "error", "Unknown error"), 0), 0)
SyncPollingTimedOut(m, t) ==
    Exc("DatalabTimeoutError",
        Msg("Polling timed out after {} seconds", "", m * t), 0)

\* One iteration of DatalabClient._poll_result after the body `d` arrived.
SyncPollDecision(d) ==
    IF Get(d, "status", Absent) = "complete" THEN "return"
    ELSE IF ~Truthy(Get(d, "success", "true"))
            /\ ~(Get(d, "status", Absent) = "processing") THEN "raise"
    ELSE "sleep"

\* Variant of SyncLoopContinues that runs one iteration too many.
SyncLoopContinuesInclusive(done, m) == done <= m

\* DatalabClient._poll_result: `for i in range(max_polls)`.
SyncLoopContinues(done, m) == done < m

\* ConversionResult built by DatalabClient.convert.
SyncMakeResult(d) ==
    [success |-> Get(d, "success", "false"),
     error   |-> RawMsg(Get(d, "error", Absent)),
     status  |-> Get(d, "status", "complete")]

EquivInit ==
    /\ scenario = "equiv"
    /\ method = "convert"
    /\ sources = <<>>
    /\ max_concurrent = 0
    /\ max_polls = 0
    /\ poll_interval = 0
    /\ call_kwargs = {}
    /\ ItemsInit
    /\ ResolverIdle /\ OutputIdle /\ ClientIdle
    /\ \/ \E as \in SeqUpTo(StatusAnswers, MaxAnswers), m \in 0..MaxPolls,
             t \in 0..MaxPollInterval :
             script = PollScript(as, m, t)
       \/ script = ConvertMissingScript
       \/ \E sub \in SubmitAnswers, as \in SeqUpTo(StatusAnswers, MaxAnswers) :
             script = ConvertScript(sub, as)
    /\ arun = NewRun
    /\ srun = NewRun

\* AsyncDatalabClient: the call up to its polling loop.  _poll_result is
\* entered directly, convert after get_form_params and the submission.
AsyncCall ==
    /\ arun.pc = "start"
    /\ arun' =
         IF script.op = "poll" THEN [arun EXCEPT !.pc = "loop"]
         ELSE IF PrepareError(script.file) # NoExc
              THEN RunRaises(arun, PrepareError(script.file))
         ELSE IF script.submit.fail # "none"
              THEN RunRaises(Sends(arun, "POST"),
                             MakeRequestError(script.submit.fail))
         ELSE IF ~Truthy(Get(script.submit.body, "success", Absent))
              THEN RunRaises(Sends(arun, "POST"),
                             SubmitRejected(script.submit.body))
         ELSE [Sends(arun, "POST") EXCEPT !.pc = "loop"]
    /\ UNCHANGED <<itemVars, resolverVars, outputVars, clientVars, script,
                   srun>>

\* AsyncDatalabClient._poll_result: the loop test and one iteration.
AsyncPoll ==
    /\ arun.pc = "loop"
    /\ arun' =
         IF ~LoopContinues(arun.polls, script.max_polls)
         THEN RunRaises(arun, PollingTimedOut(script.max_polls,
                                              script.poll_interval))
         ELSE IF Gets(arun) >= Len(script.answers)
              THEN [Sends(arun, "GET") EXCEPT !.pc = "waiting"]
         ELSE LET a == script.answers[Gets(arun) + 1]
                  sent == Sends(arun, "GET")
              IN IF a.fail # "none"
                 THEN RunRaises(sent, MakeRequestError(a.fail))
                 ELSE CASE PollDecision(a.body) = "return" ->
                               [sent EXCEPT !.pc = "returned",
                                            !.data = a.body,
                                            !.result =
                                               IF script.op = "convert"
                                               THEN MakeResult(a.body)
                                               ELSE NoResult]
                        [] PollDecision(a.body) = "raise" ->
                               RunRaises(sent, ProcessingFailed(a.body))
                        [] OTHER -> [sent EXCEPT !.polls = @ + 1]
    /\ UNCHANGED <<itemVars, resolverVars, outputVars, clientVars, script,
                   srun>>

\* DatalabClient: the call up to its polling loop.
SyncCall ==
    /\ Ended(arun)
    /\ srun.pc = "start"
    /\ srun' =
         IF script.op = "poll" THEN [srun EXCEPT !.pc = "loop"]
         ELSE IF PrepareError(script.file) # NoExc
              THEN RunRaises(srun, PrepareError(script.file))
         ELSE IF script.submit.fail # "none"
              THEN RunRaises(Sends(srun, "POST"),
                             SyncMakeRequestError(script.submit.fail))
         ELSE IF ~Truthy(Get(script.submit.body, "success", Absent))
              THEN RunRaises(Sends(srun, "POST"),
                             SyncSubmitRejected(script.submit.body))
         ELSE [Sends(srun, "POST") EXCEPT !.pc = "loop"]
    /\ UNCHANGED <<itemVars, resolverVars, outputVars, clientVars, script,
                   arun>>

\* DatalabClient._poll_result: the loop test and one iteration.
SyncPoll ==
    /\ srun.pc = "loop"
    /\ srun' =
         IF ~SyncLoopContinues(srun.polls, script.max_polls)
         THEN RunRaises(srun, SyncPollingTimedOut(script.max_polls,
                                                  script.poll_interval))
         ELSE IF Gets(srun) >= Len(script.answers)
              THEN [Sends(srun, "GET") EXCEPT !.pc = "waiting"]
         ELSE LET a == script.answers[Gets(srun) + 1]
                  sent == Sends(srun, "GET")
              IN IF a.fail # "none"
                 THEN RunRaises(sent, SyncMakeRequestError(a.fail))
                 ELSE CASE SyncPollDecision(a.body) = "return" ->
                               [sent EXCEPT !.pc = "returned",
                                            !.data = a.body,
                                            !.result =
                                               IF script.op = "convert"
                                               THEN SyncMakeResult(a.body)
                                               ELSE NoResult]
                        [] SyncPollDecision(a.body) = "raise" ->
                               RunRaises(sent, SyncProcessingFailed(a.body))
                        [] OTHER -> [sent EXCEPT !.polls = @ + 1]
    /\ UNCHANGED <<itemVars, resolverVars, outputVars, clientVars, script,
                   arun>>

EquivNext ==
    \/ AsyncCall
    \/ AsyncPoll
    \/ SyncCall
    \/ SyncPoll

EquivSpec == EquivInit /\ [][EquivNext]_vars

\* --------------------------------------------------------- transport handle
\* One AsyncDatalabClient shared by several tasks.  `_client` is the handle
\* the client holds (0 for None, else the number of the httpx.AsyncClient in
\* order of creation) and transports[h] tells whether the h-th handle is
\* open.  A run of ClientSpec either wraps the tasks in `async with client`
\* (ctx starts "outside") or uses the client bare (ctx = "unused").  The
\* block may be left at any time after entry: normally, or through the
\* exception of a task while its siblings are still running.
MaxTasks == 2
MaxRequests == 2

Tasks == 1..Len(req)
Request(at, via, n) == [pc |-> at, via |-> via, n |-> n]
NoRequest == Request("idle", 0, 0)

\* Variant of NeedsClient that builds a handle for every request.
NeedsClientAlways(c) == TRUE

\* `if self._client is None:`
NeedsClient(c) == c = 0

\* _ensure_client: the handles after the call, and the one `_client` holds.
EnsuredTransports(c, ts) == IF NeedsClient(c) THEN Append(ts, "open") ELSE ts
EnsuredClient(c, ts) == IF NeedsClient(c) THEN Len(ts) + 1 ELSE c

\* close: `self._client = None`
AfterClose(c) == 0

ClientInit ==
    /\ scenario = "client"
    /\ method = "convert"
    /\ sources = <<>>
    /\ max_concurrent = 0
    /\ max_polls = 0
    /\ poll_interval = 0
    /\ call_kwargs = {}
    /\ ItemsInit
    /\ ResolverIdle /\ OutputIdle /\ EquivIdle
    /\ _client = 0
    /\ transports = <<>>
    /\ ctx \in {"outside", "unused"}
    /\ req \in {[t \in 1..n |-> NoRequest] : n \in 1..MaxTasks}

\* __aenter__: await self._ensure_client()
Enter ==
    /\ ctx = "outside"
    /\ transports' = EnsuredTransports(_client, transports)
    /\ _client' = EnsuredClient(_client, transports)
    /\ ctx' = "entered"
    /\ UNCHANGED <<itemVars, resolverVars, outputVars, equivVars, req>>

\* _make_request up to `await self._client.request(...)`: _ensure_client has
\* no await inside, so the test, the creation and the use of the handle are
\* one step.
MakeRequest(t) ==
    /\ ctx # "outside"
    /\ req[t].pc = "idle"
    /\ req[t].n < MaxRequests
    /\ transports' = EnsuredTransports(_client, transports)
    /\ _client' = EnsuredClient(_client, transports)
    /\ req' = [req EXCEPT ![t] = Request("awaiting", _client', @.n + 1)]
    /\ UNCHANGED <<itemVars, resolverVars, outputVars, equivVars, ctx>>

\* The awaited request ends: with a body, or with an exception that ends the
\* task.
Respond(t) ==
    /\ req[t].pc = "awaiting"
    /\ \E next \in {"idle", "raised"} :
          req' = [req EXCEPT ![t].pc = next]
    /\ UNCHANGED <<itemVars, resolverVars, outputVars, equivVars, _client,
                   transports, ctx>>

\* __aexit__ -> close up to `await self._client.aclose()`: the held handle
\* is closed; a client holding none has nothing to do.
ExitClose ==
    /\ ctx = "entered"
    /\ LET how == IF \E t \in Tasks : req[t].pc = "raised"
                  THEN "exception" ELSE "normal"
       IN IF _client # 0
          THEN /\ transports' = [transports EXCEPT ![_client] = "closed"]
               /\ ctx' = IF how = "normal" THEN "closing" ELSE "closing_exc"
          ELSE /\ ctx' = IF how = "normal" THEN "exited" ELSE "exited_exc"
               /\ UNCHANGED transports
    /\ UNCHANGED <<itemVars, resolverVars, outputVars, equivVars, _client,
                   req>>

\* close after aclose() returned: `self._client = None`.
ExitReset ==
    /\ ctx \in {"closing", "closing_exc"}
    /\ _client' = AfterClose(_client)
    /\ ctx' = IF ctx = "closing" THEN "exited" ELSE "exited_exc"
    /\ UNCHANGED <<itemVars, resolverVars, outputVars, equivVars, transports,
                   req>>

ClientNext ==
    \/ Enter
    \/ \E t \in Tasks : MakeRequest(t)
    \/ \E t \in Tasks : Respond(t)
    \/ ExitClose
    \/ ExitReset

ClientSpec == ClientInit /\ [][ClientNext]_vars

\* ------------------------------------------------------------------- claims
\* An item is inside the semaphore's scope from acquire to release.
InSection(i) == IsBatch /\ pc[i] \notin {"pending", "done"}
Held == Cardinality({i \in Items : InSection(i)})
Count(rs, s) == Cardinality({k \in DOMAIN rs : rs[k].source = s})
SourceCount(s) == Cardinality({k \in Items : sources[k] = s})
PollTimeoutFmt == "Polling timed out after {} seconds"
IsTransportError(e) == \E f \in TransportFailures : e = MakeRequestError(f)

\* C1: a returned collection summary has successful + failed = total_files =
\* number of sources, and every source has exactly one entry in results.
C1_ExactlyOnceAccounting ==
    (scenario = "collection" /\ max_concurrent >= 1 /\ summary.returned) =>
        /\ summary.successful + summary.failed = summary.total_files
        /\ summary.total_files = Len(sources)
        /\ Len(summary.results) = Len(sources)
        /\ \A s \in SourceSet \cup RemoteSet :
               Count(summary.results, s) = SourceCount(s)
        /\ Len(summary.errors) = summary.failed

\* C1 witness: a batch of three sources, completed out of task order.
C1_Witness ==
    /\ scenario = "collection" /\ max_concurrent >= 1 /\ summary.returned
    /\ Len(sources) = 3
    /\ finished[1] # 1
    /\ summary.failed = 3

\* C2: at most max_concurrent items are inside the semaphore's scope.
C2_AtMostKInSection ==
    IsBatch => Held <= max_concurrent

\* C2 witness: the limit is reached while another item waits for a slot.
C2_Witness ==
    /\ IsBatch /\ max_concurrent = 2 /\ Held = 2
    /\ \E i \in Items : pc[i] = "pending"

\* C3 (as stated): a batch of A (missing file) and B (existing file) yields
\* successful = 1 and failed = 1, in either order of the two.
C3_SiblingFailureIsolated ==
    (/\ scenario = "collection" /\ method = "convert" /\ summary.returned
     /\ sources \in {<<LocalMissing, LocalOk>>, <<LocalOk, LocalMissing>>}) =>
        /\ summary.successful = 1
        /\ summary.failed = 1

\* C4: an exception raised inside a batch item ends as that item's one
\* failed entry carrying the exception's message.
C4_CaughtAtItemBoundary ==
    IsBatch =>
        \A i \in Items :
            (exc[i] # NoExc /\ pc[i] \in {"release", "done"}) =>
                /\ results[i].success = "false"
                /\ results[i].error = exc[i].msg
                /\ results[i].source = sources[i]
                /\ summary.returned =>
                       /\ summary.results[i] = results[i]
                       /\ \E k \in DOMAIN summary.errors :
                              summary.errors[k] = ErrorEntry(results[i])

\* C4 witness: an OCR batch with a URL source returned its summary.
C4_Witness ==
    /\ scenario = "collection" /\ summary.returned
    /\ \E i \in Items : exc[i] = OcrUrlError /\ pc[i] = "done"
    /\ \E i \in Items : exc[i].type = "TypeError" /\ pc[i] = "done"

\* C5: with max_concurrent >= 1 every batch run eventually returns.
C5_BatchReturns ==
    (IsBatch /\ max_concurrent >= 1) ~> summary.returned

\* C5 witness: three sources through one slot, all failed, summary returned.
C5_Witness ==
    /\ IsBatch /\ max_concurrent = 1 /\ Len(sources) = 3
    /\ summary.returned /\ summary.failed = 3

\* C6: when responses 1..k-1 are "processing" and the k-th is "complete",
\* the poller returns the k-th response after exactly k requests; and while
\* all responses are "processing" and fewer than max_polls arrived, the
\* poller does not give up.
C6_ReturnsAtFirstComplete ==
    \A i \in Items :
        /\ seen[i].procThenComplete # 0 =>
               /\ pc[i] \in {"polled", "built", "release", "done"}
               /\ nreq[i] = seen[i].procThenComplete
               /\ data[i] = seen[i].completeResp
               /\ nreq[i] <= poll_max[i]
        /\ (seen[i].allProcessing /\ seen[i].n < poll_max[i]
            /\ pc[i] = "raised") => IsTransportError(exc[i])

\* C6 witness: [processing, processing, complete] returned after 3 requests.
C6_Witness ==
    /\ scenario = "poll"
    /\ seen[1].procThenComplete = 3 /\ nreq[1] = 3 /\ pc[1] = "polled"

\* C7: with responses that are all "processing" the poller raises the
\* polling timeout after exactly max_polls requests.
C7_TimeoutAfterExactlyM ==
    \A i \in Items :
        /\ (pc[i] = "raised" /\ exc[i].msg.fmt = PollTimeoutFmt) =>
               /\ exc[i] = PollingTimedOut(poll_max[i], poll_T[i])
               /\ nreq[i] = poll_max[i]
               /\ seen[i].n = poll_max[i]
        /\ (scenario = "poll" /\ seen[i].allProcessing) =>
               /\ nreq[i] <= max_polls
               /\ pc[i] # "polled"
               /\ (pc[i] = "raised" /\ ~IsTransportError(exc[i])) =>
                      /\ exc[i] = PollingTimedOut(max_polls, poll_interval)
                      /\ nreq[i] = max_polls

\* C7 witness: max_polls = 3, three "processing" answers, then the timeout.
C7_Witness ==
    /\ scenario = "poll" /\ max_polls = 3
    /\ seen[1].allProcessing /\ seen[1].n = 3
    /\ pc[1] = "raised" /\ exc[1].type = "DatalabTimeoutError"

\* C8: a first response {status: failed, success: false, error: e} makes
\* the poller raise an API error carrying e after exactly one request.
C8_FailedStatusRaisesAtOnce ==
    \A i \in Items :
        (seen[i].n >= 1 /\ seen[i].first.status = "failed"
         /\ seen[i].first.success = "false") =>
            /\ pc[i] = "raised"
            /\ exc[i].type = "DatalabAPIError"
            /\ exc[i].msg.fmt = "Processing failed: {}"
            /\ exc[i].msg.arg = Get(seen[i].first, "error", "Unknown error")
            /\ nreq[i] = 1
            /\ seen[i].n = 1

\* C8 witness: the answer {failed, false, "boom"} to the first request.
C8_Witness ==
    /\ scenario = "poll" /\ max_polls >= 1
    /\ seen[1].first = Json("failed", "false", "boom", Absent)
    /\ pc[1] = "raised" /\ exc[1].msg.arg = "boom"

\* C9: the slots held equal the items between acquire and release, and all
\* slots are free when the batch returns.
C9_SlotsReleased ==
    IsBatch =>
        /\ max_concurrent - sem = Held
        /\ summary.returned => sem = max_concurrent

\* C9 witness: a batch whose items raised has returned with every slot free.
C9_Witness ==
    /\ IsBatch /\ summary.returned /\ Len(sources) = 3
    /\ max_concurrent = 2 /\ sem = 2
    /\ \A i \in Items : exc[i] # NoExc

\* C10: for a missing local file convert / ocr raises the file error and no
\* submit or status request is ever sent for it.
C10_MissingFileNoRequest ==
    \A i \in Items :
        (~IsRemote(sources[i]) /\ ~sources[i].exists) =>
            /\ nsub[i] = 0
            /\ nreq[i] = 0
            /\ (Binds(Kwargs, Params(method)) /\ pc[i] \notin {"call", "prepare"})
                   => (pc[i] = "raised" /\ exc[i] = FileNotFound)

\* C10 witness: a direct call on a missing file ended with the file error.
C10_Witness ==
    /\ scenario = "convert" /\ sources = <<LocalMissing>>
    /\ pc[1] = "raised" /\ exc[1].type = "DatalabFileError"
    /\ nsub[1] = 0 /\ nreq[1] = 0

\* The submission was answered by a body whose success flag is false.
RejectedAtSubmit(i) ==
    /\ nsub[i] = 1
    /\ pc[i] # "submit_wait"
    /\ initial_data[i].success = "false"

\* C11 (as stated): when the submit response has success = false, convert /
\* ocr fail with an API error carrying the service's message and a status
\* code, and no status request is made.
C11_RejectedCarriesStatusCode ==
    \A i \in Items :
        RejectedAtSubmit(i) =>
            /\ pc[i] = "raised"
            /\ exc[i].type = "DatalabAPIError"
            /\ exc[i].msg.arg = Get(initial_data[i], "error", "Unknown error")
            /\ exc[i].status_code # 0
            /\ nreq[i] = 0

\* C11 (amended): when the submit response has success = false, convert /
\* ocr fail with the API error "Request failed: <error>" carrying the
\* service's message and no status code (status_code is None), and no status
\* request is made; a status code is carried only by the API error of a
\* submission that the service answered with an HTTP error status.
C11_RejectedAtSubmit ==
    \A i \in Items :
        /\ RejectedAtSubmit(i) =>
               /\ pc[i] = "raised"
               /\ exc[i].type = "DatalabAPIError"
               /\ exc[i].msg.fmt = "Request failed: {}"
               /\ exc[i].msg.arg =
                      Get(initial_data[i], "error", "Unknown error")
               /\ exc[i].status_code = 0
               /\ nreq[i] = 0
               /\ result[i] = NoResult
        /\ (pc[i] = "raised" /\ exc[i].status_code # 0) =>
               exc[i] = MakeRequestError("HTTPStatusError")

\* C11 witness: a direct call whose submission was answered
\* {success: false, error: "bad"}.
C11_Witness ==
    /\ scenario = "convert" /\ RejectedAtSubmit(1)
    /\ initial_data[1] = Json(Absent, "false", "bad", Absent)
    /\ pc[1] = "raised" /\ exc[1].msg.arg = "bad" /\ nreq[1] = 0

\* C12: in a single-item call an error of the poller (timeout, job failure)
\* is the call's outcome: the call ends raised with that error and never
\* holds a result object; a result is built only from a "complete" body.
C12_SingleCallErrorsPropagate ==
    scenario = "convert" =>
        \A i \in Items :
            /\ exc[i] # NoExc =>
                   /\ pc[i] = "raised"
                   /\ result[i] = NoResult
            /\ pc[i] \in {"polled", "built"} =>
                   /\ exc[i] = NoExc
                   /\ data[i].status = "complete"
            /\ (pc[i] = "raised" /\ nreq[i] >= 1
                /\ ~IsTransportError(exc[i])) =>
                   \/ exc[i].type = "DatalabAPIError"
                      /\ exc[i].msg.fmt = "Processing failed: {}"
                   \/ exc[i] = PollingTimedOut(poll_max[i], poll_T[i])
                      /\ seen[i].n = poll_max[i]

\* C12 witness: a direct convert whose job never completed ended with the
\* polling timeout and no result.
C12_Witness ==
    /\ scenario = "convert" /\ method = "convert"
    /\ pc[1] = "raised" /\ exc[1].type = "DatalabTimeoutError"
    /\ exc[1].msg.fmt = PollTimeoutFmt
    /\ nreq[1] = DefaultMaxPolls /\ result[1] = NoResult

\* The items whose source is a remote reference.
Remotes == {i \in Items : IsRemote(sources[i])}

\* C13: in ocr_all every http://, https:// or s3:// source ends as a failed
\* item whose error is "OCR method only supports local files, not URLs", no
\* request is sent for it, and the returned summary counts it in failed.
C13_OcrRejectsUrls ==
    (scenario = "collection" /\ method = "ocr") =>
        \A i \in Items :
            sources[i] \in RemoteSet =>
                /\ nsub[i] = 0 /\ nreq[i] = 0
                /\ pc[i] \in {"release", "done"} =>
                       results[i] = [source |-> sources[i],
                                     success |-> "false",
                                     error |-> OcrUrlError.msg,
                                     status |-> "failed"]
                /\ summary.returned =>
                       /\ summary.results[i] = results[i]
                       /\ \E k \in DOMAIN summary.errors :
                              summary.errors[k] =
                                  [source |-> sources[i],
                                   error |-> OcrUrlError.msg]
                       /\ summary.failed >= Cardinality(Remotes)
                       /\ summary.total_files = Len(sources)

\* C13 witness: ocr_all over [s3://..., http://...] returned failed = 2.
C13_Witness ==
    /\ scenario = "collection" /\ method = "ocr"
    /\ sources = <<S3Uri, HttpUrl>>
    /\ summary.returned /\ summary.failed = 2 /\ summary.successful = 0
    /\ summary.errors[1].error.fmt =
           "OCR method only supports local files, not URLs"

\* The caller passes max_polls and poll_interval to convert / ocr.
PassesPolling ==
    scenario # "poll" /\ {"max_polls", "poll_interval"} \subseteq Kwargs
InPoller(i) ==
    pc[i] \in {"loop", "status_send", "status_wait", "sleep", "polled", "built"}

\* C14 (as stated): the max_polls and poll_interval a caller passes to
\* convert (directly, or through convert_all / the cli for every item) are
\* accepted and are the values the item's poller runs with, so the poller
\* makes at most max_polls status requests.  Stated for items whose file
\* exists, the ones that get as far as a poller.
C14_PollingParamsForwarded ==
    PassesPolling =>
        \A i \in Items :
            PrepareError(sources[i]) = NoExc =>
                /\ exc[i] # TypeErrorKeyword(method)
                /\ InPoller(i) =>
                       /\ poll_max[i] = max_polls
                       /\ poll_T[i] = poll_interval
                /\ nreq[i] <= max_polls

\* C16: a batch over a collection with no sources returns the summary
\* total_files = 0, successful = 0, failed = 0 with empty results and errors.
C16_EmptyBatchSummary ==
    (scenario = "collection" /\ sources = <<>>) =>
        /\ pc = <<>> /\ exc = <<>> /\ nsub = <<>> /\ nreq = <<>>
        /\ sem = max_concurrent
        /\ summary.returned =>
               /\ summary.total_files = 0
               /\ summary.successful = 0
               /\ summary.failed = 0
               /\ summary.results = <<>>
               /\ summary.errors = <<>>

\* C16 witness: convert_all over no sources has returned its summary.
C16_Witness ==
    /\ scenario = "collection" /\ method = "convert" /\ sources = <<>>
    /\ summary.returned /\ summary.total_files = 0

\* A suffix is in the extension filter: it equals one of the filter's
\* entries, letter case of the suffix and a missing leading dot of the
\* entry aside.
SuffixInFilter(suffix) ==
    \E x \in call.extensions.list : Lower(suffix) = WithDot(x)
WantedFile(e) == e.is_file /\ SuffixInFilter(e.suffix)

RECURSIVE AllKeys(_)
AllKeys(ps) ==
    IF ps = <<>> THEN <<>>
    ELSE (IF Head(ps).has_contents THEN Head(ps).keys ELSE <<>>)
         \o AllKeys(Tail(ps))
\* No filter is given: extensions is None or an empty list.
NoFilter == ~call.extensions.given \/ call.extensions.list = {}
WantedKey(key) == NoFilter \/ SuffixInFilter(key)
WantedKeys == SelectSeq(AllKeys(call.pages), WantedKey)

KeepsPolling(i) ==
    \/ pc[i] \in {"sleep", "loop", "status_send", "status_wait"}
    \/ /\ pc[i] = "raised"
       /\ \/ exc[i] = PollingTimedOut(poll_max[i], poll_T[i])
          \/ IsTransportError(exc[i])
\* The poller failed at the check that received data[i].
FailedAtCheck(i) ==
    /\ pc[i] = "raised"
    /\ exc[i].type = "DatalabAPIError"
    /\ exc[i].msg.fmt = "Processing failed: {}"
    /\ exc[i].msg.arg = Get(data[i], "error", "Unknown error")
    /\ nreq[i] = seen[i].n

\* C18 (as stated): a status response with status "failed" makes the
\* poller fail at that check with the service's message, whatever its
\* success flag, and no further status request is made.
C18_FailedStatusAlwaysFails ==
    \A i \in Items :
        data[i].status = "failed" => FailedAtCheck(i)

\* C18 (amended): a status response with status "failed" and success =
\* false makes the poller fail at that check with the service's message and
\* no further request; with success true or absent the poller keeps
\* polling as for any status that is not "complete".
C18_FailedStatusWithFlag ==
    \A i \in Items :
        data[i].status = "failed" =>
            IF data[i].success = "false" THEN FailedAtCheck(i)
            ELSE KeepsPolling(i)

\* C18 witness: the second check answered {failed, false, "boom"} and the
\* poller raised with "boom" after two requests.
C18_Witness ==
    /\ scenario = "poll"
    /\ data[1] = Json("failed", "false", "boom", Absent)
    /\ seen[1].n = 2 /\ nreq[1] = 2
    /\ pc[1] = "raised" /\ exc[1].msg.arg = "boom"

\* C19 (as stated): a status response with success = false ends polling
\* with a failure at that check whatever its status, "processing" included.
C19_FailureFlagAlwaysFails ==
    \A i \in Items :
        data[i].success = "false" => FailedAtCheck(i)

\* C19 (amended): a status response with success = false ends polling with
\* a failure at that check when its status is neither "complete" nor
\* "processing"; with status "processing" the poller keeps polling, and
\* with status "complete" it returns the response.
C19_FailureFlagByStatus ==
    \A i \in Items :
        data[i].success = "false" =>
            CASE data[i].status = "complete" ->
                     /\ pc[i] \in {"polled", "built"}
                     /\ exc[i] = NoExc
                     /\ nreq[i] = seen[i].n
              [] data[i].status = "processing" -> KeepsPolling(i)
              [] OTHER -> FailedAtCheck(i)

\* C19 witness: the first check answered {processing, false, "boom"} and
\* the poller went on to a second request.
C19_Witness ==
    /\ scenario = "poll"
    /\ data[1] = Json("processing", "false", "boom", Absent)
    /\ seen[1].n = 1 /\ nreq[1] = 2 /\ pc[1] = "status_wait"

\* Status requests of item i that were sent and not answered.
Unanswered(i) == nreq[i] - seen[i].n

\* C20: for one job at most one status request is in flight; request k + 1
\* leaves only after response k was examined and the wait elapsed; every
\* loop iteration makes exactly one request; a request whose call raised is
\* not sent again; and at most max_polls requests are made.
C20_SequentialPolling ==
    \A i \in Items :
        /\ Unanswered(i) \in {0, 1}
        /\ Unanswered(i) = 1 <=>
               \/ pc[i] = "status_wait"
               \/ pc[i] = "raised" /\ IsTransportError(exc[i]) /\ nreq[i] >= 1
        /\ pc[i] \in {"loop", "status_send"} =>
               nreq[i] = polls[i] /\ seen[i].n = polls[i]
        /\ pc[i] = "status_wait" =>
               nreq[i] = polls[i] + 1 /\ seen[i].n = polls[i]
        /\ pc[i] = "sleep" =>
               nreq[i] = polls[i] + 1 /\ seen[i].n = polls[i] + 1
        /\ pc[i] = "raised" => nreq[i] \in {polls[i], polls[i] + 1}
        /\ nreq[i] <= poll_max[i]
        /\ scenario = "poll" => nreq[i] <= max_polls

\* C20 witness: the second status request failed in transport; the poller
\* raised and the request was not sent again.
C20_Witness ==
    /\ scenario = "poll" /\ max_polls = 3
    /\ pc[1] = "raised" /\ IsTransportError(exc[1])
    /\ nreq[1] = 2 /\ seen[1].n = 1 /\ polls[1] = 1

\* C21: with max_concurrent >= 1 every source of a batch eventually acquires
\* a slot and starts processing: no item stays pending forever, whatever
\* order the slots come back in.
C21_NoStarvation ==
    (IsBatch /\ max_concurrent >= 1)
        ~> (\A i \in Items : pc[i] # "pending")

\* C21 witness: two slots, three sources; the second item gave its slot back
\* first, and the third item took it while the first is still inside.
C21_Witness ==
    /\ IsBatch /\ max_concurrent = 2 /\ Len(sources) = 3
    /\ finished = <<2>>
    /\ InSection(1) /\ InSection(3)

\* The failure records of the items listed in `order`, in that order.
Failing(i) == ~Truthy(results[i].success)
ErrorsInOrder(order) ==
    LET bad == SelectSeq(order, Failing)
    IN [k \in 1..Len(bad) |-> ErrorEntry(results[bad[k]])]
SourceOrder == [i \in 1..Len(sources) |-> i]

\* C22 as stated: errors[] of the batch summary lists the failure records in
\* the order in which the failing items completed.
C22_ErrorsInCompletionOrder ==
    (scenario = "collection" /\ summary.returned)
        => summary.errors = ErrorsInOrder(finished)

\* C22 amended: errors[] of the batch summary lists the failure records in
\* the order of the source list, whatever order the items completed in.
C22_ErrorsInSourceOrder ==
    (scenario = "collection" /\ summary.returned)
        => summary.errors = ErrorsInOrder(SourceOrder)

\* C22 witness: the second of two different failing sources completed
\* first, and the summary lists the first source's failure first.
C22_Witness ==
    /\ scenario = "collection" /\ summary.returned
    /\ Len(sources) = 2 /\ sources[1] # sources[2]
    /\ finished = <<2, 1>>
    /\ Len(summary.errors) = 2
    /\ summary.errors[1].source = sources[1]

\* What item i returned: its result dict, or the failed dict of its exception.
Outcome(i) ==
    IF exc[i] = NoExc THEN ItemDict(sources[i], result[i])
    ELSE ErrorDict(sources[i], exc[i])

\* C27: the results list of a returned batch is index-aligned with the
\* source list: it is as long as the source list and results[i] is the
\* outcome of sources[i], whatever order the items completed in and also
\* with repeated sources; errors[] keeps that relative order.
C27_ResultsIndexAligned ==
    (IsBatch /\ summary.returned) =>
        /\ Len(summary.results) = Len(sources)
        /\ \A i \in Items :
              /\ summary.results[i].source = sources[i]
              /\ summary.results[i] = Outcome(i)
        /\ \A k \in 1..Len(summary.errors) :
              \E i \in Items :
                /\ summary.errors[k] = ErrorEntry(Outcome(i))
                /\ Cardinality({j \in 1..i : Failing(j)}) = k

\* C27 witness: the same source listed first and last around a different
\* one, completed in reverse order, and the batch returned.
C27_Witness ==
    /\ IsBatch /\ summary.returned
    /\ Len(sources) = 3
    /\ sources[1] = sources[3] /\ sources[2] # sources[1]
    /\ finished = <<3, 2, 1>>
    /\ summary.results[2] # summary.results[1]

\* The items of a cli batch whose client holds an open transport handle.
OpenClients == {i \in Items : client[i] = "open"}

\* C29: in cli.process_files_async an item's client is open only while the
\* item holds a slot and is closed, on the normal and on the exception path,
\* before the slot is released; so at most max_concurrent handles are open
\* and none is open when the batch returns.
C29_ClientsWithinSlots ==
    scenario = "cli" =>
        /\ \A i \in OpenClients : pc[i] \notin {"pending", "enter", "release", "done"}
        /\ \A i \in Items : pc[i] \in {"release", "done"} => client[i] = "closed"
        /\ Cardinality(OpenClients) <= max_concurrent
        /\ summary.returned => OpenClients = {}

\* C29 witness: two slots, three files; two clients are open while the third
\* item waits for a slot, and one of the open clients is on the exception
\* path.
C29_Witness ==
    /\ scenario = "cli" /\ max_concurrent = 2 /\ Len(sources) = 3
    /\ Cardinality(OpenClients) = 2
    /\ \E i \in OpenClients : pc[i] = "raised"
    /\ \E i \in Items : pc[i] = "pending"

\* C30: with max_concurrent = 0 and at least one source no item ever
\* acquires a slot, no request is ever sent and the batch never returns a
\* summary.
C30_ZeroSlotsNeverReturns ==
    (IsBatch /\ max_concurrent = 0 /\ Len(sources) >= 1) =>
        /\ \A i \in Items : pc[i] = "pending" /\ nsub[i] = 0 /\ nreq[i] = 0
        /\ finished = <<>>
        /\ ~summary.returned

\* C30 witness: a batch of two sources created with no slot; both tasks wait
\* at the semaphore.
C30_Witness ==
    /\ IsBatch /\ max_concurrent = 0 /\ Len(sources) = 2
    /\ sem = 0
    /\ \A i \in Items : pc[i] = "pending"

\* The poller of item i received a "complete" response; with flag: one whose
\* success flag is true.
Completed(i) == seen[i].completeResp # NoData
CompletedOk(i) ==
    Completed(i) /\ Truthy(Get(seen[i].completeResp, "success", "false"))

CliFilter == ParseExtensions(call.extensions).given
CliWanted(e) ==
    /\ e.is_file
    /\ IF CliFilter THEN SuffixInFilter(e.suffix)
       ELSE Lower(e.suffix) \in SupportedExtensions
IsDirectoryRun ==
    call.op = "process_documents" /\ call.directory.is_dir
CliDone == rpc \in {"exited", "batch"}

C28_DistinctOutputPaths ==
    \A i, j \in 1..Len(names) :
        (/\ names[i] # names[j]
         /\ save_output[i] \notin {Unbound, NoPath}
         /\ save_output[j] \notin {Unbound, NoPath})
            => save_output[i] # save_output[j]

\* One sequence is the beginning of another.
IsPrefix(a, b) ==
    Len(a) <= Len(b) /\ \A k \in 1..Len(a) : a[k] = b[k]

OpenTransports == {h \in DOMAIN transports : transports[h] = "open"}
Used == ctx \notin {"outside", "unused"} \/ \E t \in Tasks : req[t].n > 0
Exited == ctx \in {"exited", "exited_exc"}

\* C23: an AsyncDatalabClient holds at most one transport handle at any
\* time and every open handle is the one it holds; the handle exists from
\* the first use on (context entry or first request) and not before;
\* concurrent first requests of several tasks create one handle between
\* them; leaving the context, normally or through an exception, closes the
\* handle and leaves the client with none, and only a request made after
\* that gives it a fresh, open one.
C23_OneTransportHandle ==
    scenario = "client" =>
        /\ Cardinality(OpenTransports) <= 1
        /\ OpenTransports \subseteq {_client}
        /\ Used <=> transports # <<>>
        /\ ctx \in {"unused", "entered"} =>
               /\ Len(transports) <= 1
               /\ Used => (_client = 1 /\ transports[1] = "open")
               /\ \A t \in Tasks : req[t].n > 0 => req[t].via = 1
        /\ Exited =>
               /\ transports[1] = "closed"
               /\ Len(transports) = 1 => _client = 0
               /\ Len(transports) > 1 =>
                      /\ Len(transports) = 2 /\ _client = 2
                      /\ transports[2] = "open"
                      /\ \E t \in Tasks : req[t].via = 2

\* C23 witness: two tasks sent their first requests together on one handle,
\* one request raised, the context was left through that exception, and the
\* other task's next request gave the client a fresh handle.
C23_Witness ==
    /\ scenario = "client" /\ ctx = "exited_exc"
    /\ Len(req) = 2
    /\ transports = <<"closed", "open">> /\ _client = 2
    /\ \E t \in Tasks : req[t].pc = "raised" /\ req[t].via = 1
    /\ \E t \in Tasks : req[t].pc = "awaiting" /\ req[t].via = 2
====
